---- MODULE Spec2Model ----
(***************************************************************************)
(* Model of the reconciliation code of voar-monocle: controls.py (the      *)
(* normalizers, the statistics, the matcher) and the steps of app.py that  *)
(* drive it (process_large_csv, the defaulting step, the matcher call).    *)
(*                                                                         *)
(* A DataFrame is a sequence of rows; a row is a record whose idx field is *)
(* its index label.  A cell is a record whose k field is the kind of value *)
(* pandas holds there: "str" (text, s the characters), "int" / "float"     *)
(* (v the amount), "bool", "nan" (a missing value); a date cell carries    *)
(* the layout of its text ("dmyT" 05.03.2024 10:00:00, "dmy" 05.03.2024,   *)
(* "iso" 2024-03-05, "text" anything else) and the numbers written in it.  *)
(***************************************************************************)
EXTENDS Integers, Sequences, FiniteSets, TLC

VARIABLES
    file, csv_pc, pos, chunks, csv_ret, csv_err,
    bank_in, bank_once, bank_statement, b_pc, b_err, bank_stats, bank_credit_debit,
    lender_in, lending_statement, l_pc, l_err, lender_stats, credit_debit,
    m_pc, ret, missing_from_lender, matching_records, m_err

csv_vars == <<file, csv_pc, pos, chunks, csv_ret, csv_err>>
bank_vars == <<bank_in, bank_once, bank_statement, b_pc, b_err, bank_stats, bank_credit_debit>>
lender_vars == <<lender_in, lending_statement, l_pc, l_err, lender_stats, credit_debit>>
match_vars == <<m_pc, ret, missing_from_lender, matching_records, m_err>>
vars == <<csv_vars, bank_vars, lender_vars, match_vars>>

(* ---------------------------- bounds ---------------------------------- *)
\* rows of a bank frame, of a bank file, of a lender frame, and of the frames
\* given to the matcher
MaxBankRows == 2
MaxFileRows == 3
MaxLenderRows == 2
MaxMatchRows == 2
\* chunk_size of process_large_csv (10000 by default), at the scale of the
\* files above
ChunkSize == 1

None == [k |-> "none"]
NaN == [k |-> "nan"]
NoError == [exc |-> "none", at |-> "none"]
Raise(exc, at) == [exc |-> exc, at |-> at]

(* ---------------------------- characters ------------------------------ *)
Str(s) == [k |-> "str", s |-> s]

Digit == {"0", "1", "2", "3", "4", "5", "6", "7", "8", "9"}
LowerLetter == {"a", "i", "m", "n", "p", "r", "e_acute"}
UpperLetter == {"A", "I", "M", "N", "P", "R"}

\* str.lower() on one character
lower(c) ==
    CASE c = "A" -> "a" [] c = "I" -> "i" [] c = "M" -> "m"
      [] c = "N" -> "n" [] c = "P" -> "p" [] c = "R" -> "r"
      [] OTHER -> c

\* str.isalnum() on one character
isalnum(c) == c \in Digit \cup LowerLetter \cup UpperLetter

\* ''.join(e for e in x.lower() if e.isalnum())
normalized_key(x) == SelectSeq([i \in 1..Len(x) |-> lower(x[i])], isalnum)

\* the counterparty marker of the bank filter
Marker == <<"r", "a", "m", "a", "n", "i">>

\* Series.str.contains(marker) on one value
contains(s, marker) ==
    \E i \in 1..(Len(s) - Len(marker) + 1) : SubSeq(s, i, i + Len(marker) - 1) = marker

RECURSIVE ToDigits(_)
\* the decimal digits of a non-negative whole number
ToDigits(n) ==
    LET d == CASE n % 10 = 0 -> "0" [] n % 10 = 1 -> "1" [] n % 10 = 2 -> "2"
               [] n % 10 = 3 -> "3" [] n % 10 = 4 -> "4" [] n % 10 = 5 -> "5"
               [] n % 10 = 6 -> "6" [] n % 10 = 7 -> "7" [] n % 10 = 8 -> "8"
               [] OTHER -> "9"
    IN  IF n < 10 THEN <<d>> ELSE Append(ToDigits(n \div 10), d)

DigitVal(c) ==
    CASE c = "0" -> 0 [] c = "1" -> 1 [] c = "2" -> 2 [] c = "3" -> 3 [] c = "4" -> 4
      [] c = "5" -> 5 [] c = "6" -> 6 [] c = "7" -> 7 [] c = "8" -> 8 [] OTHER -> 9

RECURSIVE DigitsVal(_)
DigitsVal(s) ==
    IF Len(s) = 0 THEN 0
    ELSE 10 * DigitsVal(SubSeq(s, 1, Len(s) - 1)) + DigitVal(s[Len(s)])

(* ---------------------------- amounts --------------------------------- *)
Int64(v) == [k |-> "int", v |-> v]
Float(v) == [k |-> "float", v |-> v]

\* Series.astype(str) on one cell
astype_str(c) ==
    CASE c.k = "str" -> c.s
      [] c.k = "int" -> ToDigits(c.v)
      [] c.k = "float" -> ToDigits(c.v) \o <<".", "0">>
      [] OTHER -> <<"n", "a", "n">>

\* .str.replace(',', '') on one value
strip_commas(s) == SelectSeq(s, LAMBDA c : c # ",")

\* float(text): the amount, NaN for "nan", ValueError for anything else.
\* Amounts of the model are whole numbers: the fraction digits are zeros.
to_float(s) ==
    LET dots == {i \in 1..Len(s) : s[i] = "."}
        p == IF dots = {} THEN Len(s) + 1 ELSE CHOOSE i \in dots : TRUE
        whole == SubSeq(s, 1, p - 1)
        frac == SubSeq(s, p + 1, Len(s))
    IN  IF s = <<"n", "a", "n">> THEN [ok |-> TRUE, val |-> NaN]
        ELSE IF /\ Cardinality(dots) <= 1
                /\ Len(whole) + Len(frac) > 0
                /\ \A i \in 1..Len(whole) : whole[i] \in Digit
                /\ \A i \in 1..Len(frac) : frac[i] = "0"
             THEN [ok |-> TRUE, val |-> Float(DigitsVal(whole))]
             ELSE [ok |-> FALSE, val |-> NaN]

\* bank_df[col].astype(str).str.replace(',', '').astype(float) on one cell
to_amount(c) == to_float(strip_commas(astype_str(c)))

RECURSIVE SumCol(_, _)
\* Series.sum(): missing values are skipped
SumCol(df, col) ==
    IF Len(df) = 0 THEN 0
    ELSE SumCol(Tail(df), col) + (IF df[1][col].k \in {"int", "float"} THEN df[1][col].v ELSE 0)

RECURSIVE Group(_)
\* thousands grouping of a digit string
Group(ds) ==
    IF Len(ds) <= 3 THEN ds
    ELSE Group(SubSeq(ds, 1, Len(ds) - 3)) \o <<",">> \o SubSeq(ds, Len(ds) - 2, Len(ds))

format_currency(value) ==
    <<"T", "S", "h", " ">> \o Group(ToDigits(value)) \o <<".", "0", "0">>

(* ---------------------------- dates ----------------------------------- *)
DateCell(k, d, m, y) == [k |-> k, d |-> d, m |-> m, y |-> y]

DaysIn(m) == IF m = 2 THEN 29 ELSE IF m \in {4, 6, 9, 11} THEN 30 ELSE 31
ValidDate(d, m) == m \in 1..12 /\ d \in 1..DaysIn(m)

\* Timestamp.strftime('%d.%m.%Y')
strftime(d, m, y) == DateCell("dmy", d, m, y)

Returned(v) == [exc |-> "none", val |-> v]
Raised(exc) == [exc |-> exc, val |-> None]

\* pd.to_datetime(date_str, format='%d.%m.%Y %H:%M:%S').strftime('%d.%m.%Y'):
\* text of another layout does not match the format (ValueError), a missing
\* value parses to NaT, whose strftime raises ValueError, and a bool is
\* refused with TypeError (bool cannot be converted to datetime).
primary_parse(date_str) ==
    IF date_str.k = "dmyT" /\ ValidDate(date_str.d, date_str.m)
    THEN Returned(strftime(date_str.d, date_str.m, date_str.y))
    ELSE IF date_str.k = "bool" THEN Raised("TypeError")
    ELSE Raised("ValueError")

\* the permissive parse without dayfirst=True: month first, day first when
\* only that reading is a date
permissive_parse_monthfirst(date_str) ==
    CASE date_str.k \in {"dmyT", "dmy"} ->
            IF ValidDate(date_str.m, date_str.d)
            THEN Returned(strftime(date_str.m, date_str.d, date_str.y))
            ELSE IF ValidDate(date_str.d, date_str.m)
                 THEN Returned(strftime(date_str.d, date_str.m, date_str.y))
                 ELSE Raised("ValueError")
      [] date_str.k = "iso" ->
            IF ValidDate(date_str.d, date_str.m)
            THEN Returned(strftime(date_str.d, date_str.m, date_str.y))
            ELSE Raised("ValueError")
      [] date_str.k = "bool" -> Raised("TypeError")
      [] OTHER -> Raised("ValueError")

\* pd.to_datetime(date_str, dayfirst=True).strftime('%d.%m.%Y'): day first,
\* month first when only that reading is a date; ISO text read as ISO;
\* unparsable text raises ValueError (ParserError is one), a missing value
\* gives NaT, whose strftime raises ValueError; a bool is refused with
\* TypeError ("<class 'bool'> is not convertible to datetime").
permissive_parse(date_str) ==
    CASE date_str.k \in {"dmyT", "dmy"} ->
            IF ValidDate(date_str.d, date_str.m)
            THEN Returned(strftime(date_str.d, date_str.m, date_str.y))
            ELSE IF ValidDate(date_str.m, date_str.d)
                 THEN Returned(strftime(date_str.m, date_str.d, date_str.y))
                 ELSE Raised("ValueError")
      [] date_str.k = "iso" ->
            IF ValidDate(date_str.d, date_str.m)
            THEN Returned(strftime(date_str.d, date_str.m, date_str.y))
            ELSE Raised("ValueError")
      [] date_str.k = "bool" -> Raised("TypeError")
      [] OTHER -> Raised("ValueError")

\* normalize_bank_data.parse_date: only ValueError is caught
parse_date(date_str) ==
    LET first == primary_parse(date_str)
        second == permissive_parse(date_str)
    IN  IF first.exc = "none" THEN first
        ELSE IF first.exc # "ValueError" THEN first
        ELSE IF second.exc = "none" THEN second
        ELSE IF second.exc # "ValueError" THEN second
        ELSE Returned(date_str)

(* ---------------------------- bank side ------------------------------- *)
BankRow(i, p, v, deb, cr, det) ==
    [idx |-> i, PostingDate |-> p, ValueDate |-> v, Debit |-> deb, Credit |-> cr,
     Details |-> det]

\* one row after lines 85-96 (every cell conversion succeeded)
bank_converted(r) ==
    [idx |-> r.idx,
     PostingDate |-> parse_date(r.PostingDate).val,
     ValueDate |-> parse_date(r.ValueDate).val,
     Debit |-> to_amount(r.Debit).val,
     Credit |-> to_amount(r.Credit).val,
     Details |-> Str(astype_str(r.Details)),
     normalized_description |-> normalized_key(astype_str(r.Details))]

\* the mask of line 98 without its Credit test
bank_filter_marker_only(r) == contains(r.normalized_description, Marker)

\* the boolean mask of line 98
bank_filter(r) ==
    contains(r.normalized_description, Marker) /\ r.Credit = Float(0)

\* the exception the first cell of a date column raises in parse_date
FirstRaise(bank_df, col) ==
    LET bad == {i \in 1..Len(bank_df) : parse_date(bank_df[i][col]).exc # "none"}
        i0 == CHOOSE i \in bad : \A j \in bad : i <= j
    IN  Raise(parse_date(bank_df[i0][col]).exc, "parse_date")

\* normalize_bank_data(bank_df): the filtered frame, or the first exception
\* its column conversions raise (lines 85, 86, 89, 90 in that order)
normalize_bank_data(bank_df) ==
    LET rows == 1..Len(bank_df)
        conv == [i \in rows |-> bank_converted(bank_df[i])]
    IN  IF \E i \in rows : parse_date(bank_df[i].PostingDate).exc # "none"
        THEN [err |-> FirstRaise(bank_df, "PostingDate"), df |-> <<>>]
        ELSE IF \E i \in rows : parse_date(bank_df[i].ValueDate).exc # "none"
        THEN [err |-> FirstRaise(bank_df, "ValueDate"), df |-> <<>>]
        ELSE IF \E i \in rows : ~to_amount(bank_df[i].Debit).ok
        THEN [err |-> Raise("ValueError", "Debit"), df |-> <<>>]
        ELSE IF \E i \in rows : ~to_amount(bank_df[i].Credit).ok
        THEN [err |-> Raise("ValueError", "Credit"), df |-> <<>>]
        ELSE [err |-> NoError, df |-> SelectSeq(conv, bank_filter)]

\* get_bank_stats(bank_statement): (results, credit_debit), or IndexError
\* from .iloc[0] on a frame without rows
get_bank_stats(bs) ==
    IF Len(bs) = 0
    THEN [err |-> Raise("IndexError", "iloc"), results |-> None, credit_debit |-> None]
    ELSE [err |-> NoError,
          results |-> [records |-> Len(bs),
                       From |-> bs[1].PostingDate,
                       To |-> bs[Len(bs)].PostingDate],
          credit_debit |-> [credit |-> format_currency(SumCol(bs, "Credit")),
                            debit |-> format_currency(SumCol(bs, "Debit"))]]

(* ---------------------------- inputs ---------------------------------- *)
RAMANI_1 == Str(<<"R", "A", "M", "A", "N", "I", " ", "1">>)
ra_mani == Str(<<"r", "a", "-", "m", "a", "n", "i">>)
RAMAN == Str(<<"R", "A", "M", "A", "N">>)
P_ramani == Str(<<"P", " ", "r", "a", "m", "a", "n", "i">>)

DateCells ==
    {DateCell("dmyT", 5, 3, 2024), DateCell("dmyT", 25, 12, 2023),
     DateCell("dmy", 5, 3, 2024), DateCell("iso", 5, 3, 2024),
     DateCell("dmy", 3, 25, 2024), DateCell("dmyT", 31, 2, 2024),
     DateCell("text", 0, 0, 0), DateCell("nan", 0, 0, 0), DateCell("bool", 0, 0, 0)}
ValueDateCells ==
    {DateCell("dmyT", 5, 3, 2024), DateCell("dmy", 7, 3, 2024), DateCell("nan", 0, 0, 0),
     DateCell("bool", 0, 0, 0)}
DebitCells == {Str(<<"1", ",", "0", "0", "0">>), Int64(250), NaN, Str(<<"-">>)}
CreditCells == {Int64(0), Str(<<"0", ".", "0", "0">>), Int64(50), NaN}
DetailCells == {RAMANI_1, ra_mani, RAMAN, P_ramani, NaN}

\* The rows of the bank inputs: every date cell in each date column, every
\* amount cell in Debit, and every pair of a Details and a Credit cell.
BankRows ==
    LET p0 == DateCell("dmyT", 5, 3, 2024)
        d0 == Str(<<"1", ",", "0", "0", "0">>)
    IN  {BankRow(0, p, p0, d0, Int64(0), RAMANI_1) : p \in DateCells}
        \cup {BankRow(0, p0, v, d0, Int64(0), RAMANI_1) : v \in ValueDateCells}
        \cup {BankRow(0, p0, p0, deb, Int64(0), RAMANI_1) : deb \in DebitCells}
        \cup {BankRow(0, p0, p0, d0, cr, det) : cr \in CreditCells, det \in DetailCells}

SeqsUpTo(S, n) == UNION {[1..k -> S] : k \in 0..n}

\* a frame as read_csv builds it: the index is the RangeIndex from `start`
RangeIndexed(rows, start) ==
    [i \in 1..Len(rows) |-> [rows[i] EXCEPT !.idx = start + i - 1]]

BankTables == {RangeIndexed(t, 1) : t \in SeqsUpTo(BankRows, MaxBankRows)}

(* ---------------------------- idle parts ------------------------------ *)
CsvIdle ==
    /\ file = <<>> /\ csv_pc = "idle" /\ pos = 0 /\ chunks = <<>>
    /\ csv_ret = None /\ csv_err = NoError
BankIdle ==
    /\ bank_in = <<>> /\ bank_once = None /\ bank_statement = None /\ b_pc = "idle"
    /\ b_err = NoError /\ bank_stats = None /\ bank_credit_debit = None
LenderIdle ==
    /\ lender_in = None /\ lending_statement = None /\ l_pc = "idle"
    /\ l_err = NoError /\ lender_stats = None /\ credit_debit = None
MatchIdle ==
    /\ m_pc = "idle" /\ ret = None /\ missing_from_lender = None
    /\ matching_records = None /\ m_err = NoError

(* ------------------- bank side: main, lines 86 and 97 ------------------ *)
InitBank ==
    /\ bank_in \in BankTables
    /\ bank_once = None /\ bank_statement = None /\ b_pc = "loaded"
    /\ b_err = NoError /\ bank_stats = None /\ bank_credit_debit = None
    /\ CsvIdle /\ LenderIdle /\ MatchIdle

\* normalize_bank_data on a frame as read from the file
NormalizeBank ==
    /\ b_pc = "loaded"
    /\ LET r == normalize_bank_data(bank_in)
       IN  IF r.err # NoError
           THEN /\ b_pc' = "raised" /\ b_err' = r.err
                /\ UNCHANGED <<bank_once, bank_statement>>
           ELSE /\ b_pc' = "normalized" /\ bank_once' = r.df /\ bank_statement' = r.df
                /\ UNCHANGED b_err
    /\ UNCHANGED <<bank_in, bank_stats, bank_credit_debit>>
    /\ UNCHANGED <<csv_vars, lender_vars, match_vars>>

\* main, line 86: bank_statement = normalize_bank_data(bank_statement), on the
\* frame that is already normalized
RenormalizeBank ==
    /\ b_pc = "normalized"
    /\ LET r == normalize_bank_data(bank_statement)
       IN  IF r.err # NoError
           THEN /\ b_pc' = "reraised" /\ b_err' = r.err /\ UNCHANGED bank_statement
           ELSE /\ b_pc' = "renormalized" /\ bank_statement' = r.df /\ UNCHANGED b_err
    /\ UNCHANGED <<bank_in, bank_once, bank_stats, bank_credit_debit>>
    /\ UNCHANGED <<csv_vars, lender_vars, match_vars>>

\* main, line 97: bank_stats, bank_credit_debit = get_bank_stats(bank_statement)
GetBankStats ==
    /\ b_pc = "renormalized"
    /\ LET r == get_bank_stats(bank_statement)
       IN  IF r.err # NoError
           THEN /\ b_pc' = "raised" /\ b_err' = r.err
                /\ UNCHANGED <<bank_stats, bank_credit_debit>>
           ELSE /\ b_pc' = "stats" /\ bank_stats' = r.results
                /\ bank_credit_debit' = r.credit_debit /\ UNCHANGED b_err
    /\ UNCHANGED <<bank_in, bank_once, bank_statement>>
    /\ UNCHANGED <<csv_vars, lender_vars, match_vars>>

NextBank == NormalizeBank \/ RenormalizeBank \/ GetBankStats

SpecBank == InitBank /\ [][NextBank]_vars

(* ---------------------------- bank claims ----------------------------- *)
\* the key and the credit amount of an input row, as lines 90 and 96 derive them
KeyOf(r) == normalized_key(astype_str(r.Details))
CreditOf(r) == to_amount(r.Credit).val
Labels(df) == {df[j].idx : j \in 1..Len(df)}

\* C1: normalize_bank_data retains exactly the rows whose normalized key
\* contains 'ramani' and whose Credit equals 0: every such input row is in the
\* output once, no other row is, and every output row satisfies both conditions.
C1_FilterExact ==
    b_pc = "normalized" =>
        /\ \A i \in 1..Len(bank_in) :
              (bank_in[i].idx \in Labels(bank_once))
                  <=> (contains(KeyOf(bank_in[i]), Marker) /\ CreditOf(bank_in[i]) = Float(0))
        /\ Labels(bank_once) \subseteq Labels(bank_in)
        /\ \A j, k \in 1..Len(bank_once) : bank_once[j].idx = bank_once[k].idx => j = k
        /\ \A j \in 1..Len(bank_once) :
              /\ contains(bank_once[j].normalized_description, Marker)
              /\ bank_once[j].Credit = Float(0)

\* a run of the filter that kept a row and dropped a row of each kind
C1_Witness ==
    /\ b_pc = "normalized"
    /\ Len(bank_once) >= 1
    /\ \E i \in 1..Len(bank_in) :
          /\ bank_in[i].idx \notin Labels(bank_once)
          /\ (~contains(KeyOf(bank_in[i]), Marker) \/ CreditOf(bank_in[i]) # Float(0))

\* C6: normalize_bank_data applied to its own output returns the same rows,
\* with the same dates, amounts and keys, and does not raise.
C6_Idempotent ==
    /\ b_pc # "reraised"
    /\ b_pc = "renormalized" => bank_statement = bank_once

\* a second normalization of a frame whose first normalization rewrote a date
\* and an amount
C6_Witness ==
    /\ b_pc = "renormalized"
    /\ \E j \in 1..Len(bank_statement) :
          LET src == bank_in[bank_statement[j].idx]
          IN  /\ src.PostingDate # bank_statement[j].PostingDate
              /\ src.Debit # bank_statement[j].Debit

\* chronological order of two parsed dates
Before(a, b) ==
    \/ a.y < b.y
    \/ a.y = b.y /\ a.m < b.m
    \/ a.y = b.y /\ a.m = b.m /\ a.d < b.d

\* C7: From and To of get_bank_stats are the earliest and the latest date of
\* the Posting Date column, whatever the order of the rows (stated for the
\* frames all of whose dates parsed).
C7_FromToAreMinMax ==
    (/\ b_pc = "stats"
     /\ \A i \in 1..Len(bank_statement) : bank_statement[i].PostingDate.k = "dmy")
    => \A i \in 1..Len(bank_statement) :
          /\ ~Before(bank_statement[i].PostingDate, bank_stats.From)
          /\ ~Before(bank_stats.To, bank_statement[i].PostingDate)

\* what the cascade of the claim gives for one cell
CascadeResult(c) ==
    IF primary_parse(c).exc = "none" THEN primary_parse(c).val
    ELSE IF permissive_parse(c).exc = "none" THEN permissive_parse(c).val
    ELSE c

\* C9: parse_date never raises, and its result is the day.month.year text of
\* the first attempt that succeeds, else the original value.
C9_ParseDateNeverRaises ==
    /\ ~(b_pc = "raised" /\ b_err.at = "parse_date")
    /\ b_pc = "normalized" =>
          \A j \in 1..Len(bank_once) :
              /\ bank_once[j].PostingDate = CascadeResult(bank_in[bank_once[j].idx].PostingDate)
              /\ bank_once[j].ValueDate = CascadeResult(bank_in[bank_once[j].idx].ValueDate)

(* ------------------- process_large_csv (app.py) ----------------------- *)
\* The file is its rows as read_csv types them, the Details text still bytes:
\* "xE9" is a byte that is no UTF-8 text and that Latin-1 reads as e-acute.
RAMANI_xE9 == Str(<<"R", "A", "M", "A", "N", "I", "xE9">>)

FileRows ==
    LET p0 == DateCell("dmyT", 5, 3, 2024)
        d0 == Str(<<"1", ",", "0", "0", "0">>)
    IN  {BankRow(0, p0, p0, d0, Int64(0), RAMANI_1),
         BankRow(0, DateCell("dmyT", 25, 12, 2023), p0, d0, Int64(0), ra_mani),
         BankRow(0, p0, p0, d0, Int64(50), RAMANI_1),
         BankRow(0, p0, p0, d0, Int64(0), RAMANI_xE9)}

Files == SeqsUpTo(FileRows, MaxFileRows)

\* a file without data rows still gives one (empty) chunk
NChunks(f) == IF Len(f) = 0 THEN 1 ELSE (Len(f) + ChunkSize - 1) \div ChunkSize

Min(a, b) == IF a < b THEN a ELSE b

decode_latin(c) ==
    IF c.k = "str" THEN Str([i \in 1..Len(c.s) |-> IF c.s[i] = "xE9" THEN "e_acute" ELSE c.s[i]])
    ELSE c

utf8_decodable(c) == c.k = "str" => \A i \in 1..Len(c.s) : c.s[i] # "xE9"

\* the k-th chunk of pd.read_csv(file_path, chunksize=chunk_size, encoding=enc)
read_chunk(f, enc, k) ==
    LET first == (k - 1) * ChunkSize + 1
        rows == RangeIndexed(SubSeq(f, first, Min(k * ChunkSize, Len(f))), first)
    IN  IF enc = "utf-8"
        THEN IF \A i \in 1..Len(rows) : utf8_decodable(rows[i].Details)
             THEN [err |-> NoError, df |-> rows]
             ELSE [err |-> Raise("UnicodeDecodeError", "read_csv"), df |-> <<>>]
        ELSE [err |-> NoError,
              df |-> [i \in 1..Len(rows) |->
                         [rows[i] EXCEPT !.Details = decode_latin(rows[i].Details)]]]

\* the parameters of def normalize_bank_data(bank_df)
normalize_bank_data_params == {"bank_df"}

\* a call of normalize_bank_data binding the parameters `bound`: a name the
\* function does not declare is a TypeError
call_normalize_bank_data(bound, df) ==
    IF bound \subseteq normalize_bank_data_params
    THEN normalize_bank_data(df)
    ELSE [err |-> Raise("TypeError", "call"), df |-> <<>>]

RECURSIVE Flatten(_)
Flatten(cs) == IF Len(cs) = 0 THEN <<>> ELSE cs[1] \o Flatten(Tail(cs))

\* pd.concat(chunks, ignore_index=True)
concat(cs) == RangeIndexed(Flatten(cs), 1)

InitCsv ==
    /\ file \in Files
    /\ csv_pc = "utf8" /\ pos = 1 /\ chunks = <<>> /\ csv_ret = None /\ csv_err = NoError
    /\ BankIdle /\ LenderIdle /\ MatchIdle

\* lines 35-38: one turn of the loop over the UTF-8 reader, its exit (the
\* return of line 38) and the jump to the handler of line 39
Utf8Iter ==
    /\ csv_pc = "utf8"
    /\ IF pos > NChunks(file)
       THEN /\ csv_pc' = "returned" /\ csv_ret' = concat(chunks)
            /\ UNCHANGED <<pos, chunks, csv_err>>
       ELSE LET rd == read_chunk(file, "utf-8", pos)
                r == call_normalize_bank_data({"bank_df", "needle"}, rd.df)
            IN  IF rd.err # NoError
                THEN /\ csv_pc' = "latin" /\ pos' = 1
                     /\ UNCHANGED <<chunks, csv_ret, csv_err>>
                ELSE IF r.err # NoError
                THEN /\ csv_pc' = "raised" /\ csv_err' = r.err
                     /\ UNCHANGED <<pos, chunks, csv_ret>>
                ELSE /\ chunks' = Append(chunks, r.df) /\ pos' = pos + 1
                     /\ UNCHANGED <<csv_pc, csv_ret, csv_err>>
    /\ UNCHANGED file
    /\ UNCHANGED <<bank_vars, lender_vars, match_vars>>

\* lines 41-45: one turn of the loop over the Latin reader, which starts at
\* the first chunk again with `chunks` as the first loop left it, and its exit
LatinIter ==
    /\ csv_pc = "latin"
    /\ IF pos > NChunks(file)
       THEN /\ csv_pc' = "returned" /\ csv_ret' = concat(chunks)
            /\ UNCHANGED <<pos, chunks, csv_err>>
       ELSE LET rd == read_chunk(file, "latin", pos)
                r == call_normalize_bank_data({"bank_df", "needle"}, rd.df)
            IN  IF r.err # NoError
                THEN /\ csv_pc' = "raised" /\ csv_err' = r.err
                     /\ UNCHANGED <<pos, chunks, csv_ret>>
                ELSE /\ chunks' = Append(chunks, r.df) /\ pos' = pos + 1
                     /\ UNCHANGED <<csv_pc, csv_ret, csv_err>>
    /\ UNCHANGED file
    /\ UNCHANGED <<bank_vars, lender_vars, match_vars>>

NextCsv == Utf8Iter \/ LatinIter

SpecCsv == InitCsv /\ [][NextCsv]_vars

\* the encoding the claim has the result read with
EncodingUsed(f) ==
    IF \A k \in 1..NChunks(f) : read_chunk(f, "utf-8", k).err = NoError
    THEN "utf-8" ELSE "latin"

\* the kept rows of every chunk, each once, in chunk order
ExpectedConcat(f) ==
    concat([k \in 1..NChunks(f) |-> normalize_bank_data(read_chunk(f, EncodingUsed(f), k).df).df])

\* C8: process_large_csv returns the concatenation, in chunk order, of the
\* normalized chunks, every retained row once, also after the fallback to the
\* Latin encoding; only a failure of the fallback read makes it raise (no read
\* with the Latin encoding fails on the files of the model).
C8_ReturnsConcatenation ==
    /\ csv_pc # "raised"
    /\ csv_pc = "returned" => csv_ret = ExpectedConcat(file)

(* ---------------------------- lender side ----------------------------- *)
\* A lender frame: its rows and which of the optional columns it has; the
\* ismatched / POP field of a row of a frame without that column is Absent.
Absent == [k |-> "absent"]
Flag(s) == [k |-> "flag", s |-> s]

LenderRow(i, c, cr, deb, des, im, pop) ==
    [idx |-> i, created_at |-> c, credit |-> cr, debit |-> deb, description |-> des,
     ismatched |-> im, POP |-> pop]

LenderFrame(hi, hp, rows) == [has_ismatched |-> hi, has_POP |-> hp, rows |-> rows]

\* pd.to_datetime(series).dt.strftime('%d.%m.%Y') on one cell: month first (no
\* dayfirst here), day first when only that reading is a date; a missing value
\* stays missing; unparsable text raises ValueError
lender_date(c) ==
    CASE c.k \in {"dmyT", "dmy"} ->
            IF ValidDate(c.m, c.d) THEN Returned(strftime(c.m, c.d, c.y))
            ELSE IF ValidDate(c.d, c.m) THEN Returned(strftime(c.d, c.m, c.y))
            ELSE Raised("ValueError")
      [] c.k = "iso" ->
            IF ValidDate(c.d, c.m) THEN Returned(strftime(c.d, c.m, c.y))
            ELSE Raised("ValueError")
      [] c.k = "nan" -> Returned(c)
      [] OTHER -> Raised("ValueError")

\* pd.to_numeric(series, errors='coerce') on one cell: text that is no number
\* (a thousands separator included) becomes NaN
to_numeric(c) ==
    CASE c.k \in {"int", "float"} -> c
      [] c.k = "str" -> IF to_float(c.s).ok THEN to_float(c.s).val ELSE NaN
      [] OTHER -> NaN

lender_converted(r) ==
    [idx |-> r.idx,
     created_at |-> lender_date(r.created_at).val,
     credit |-> to_numeric(r.credit),
     debit |-> to_numeric(r.debit),
     description |-> r.description,
     ismatched |-> r.ismatched,
     POP |-> r.POP,
     normalized_description |-> normalized_key(r.description.s)]

\* normalize_lender_data followed by a dropna on credit: the rows whose credit
\* was coerced to NaN are removed
normalize_lender_data_dropna(lender_df) ==
    LET rows == 1..Len(lender_df.rows)
    IN  IF \E i \in rows : lender_date(lender_df.rows[i].created_at).exc # "none"
        THEN [err |-> Raise("ValueError", "created_at"), df |-> lender_df]
        ELSE IF \E i \in rows : lender_df.rows[i].description.k # "str"
        THEN [err |-> Raise("AttributeError", "description"), df |-> lender_df]
        ELSE [err |-> NoError,
              df |-> [lender_df EXCEPT !.rows =
                         SelectSeq([i \in rows |-> lender_converted(lender_df.rows[i])],
                                   LAMBDA r : r.credit # NaN)]]

\* normalize_lender_data(lender_df): the frame with its columns converted, or
\* the exception of line 42 (a date) or of line 49 (x.lower() on a missing
\* description, a float)
normalize_lender_data(lender_df) ==
    LET rows == 1..Len(lender_df.rows)
    IN  IF \E i \in rows : lender_date(lender_df.rows[i].created_at).exc # "none"
        THEN [err |-> Raise("ValueError", "created_at"), df |-> lender_df]
        ELSE IF \E i \in rows : lender_df.rows[i].description.k # "str"
        THEN [err |-> Raise("AttributeError", "description"), df |-> lender_df]
        ELSE [err |-> NoError,
              df |-> [lender_df EXCEPT !.rows =
                         [i \in rows |-> lender_converted(lender_df.rows[i])]]]

\* Series.fillna(value) on one cell
fillna(c, value) == IF c = NaN THEN value ELSE c

FillColumn(rows, col, value) ==
    [i \in 1..Len(rows) |-> [rows[i] EXCEPT ![col] = fillna(rows[i][col], value)]]

\* main, lines 90-94: both fills in one try; the KeyError of the first
\* missing column ends the block
default_fill(ls) ==
    IF ~ls.has_ismatched THEN ls
    ELSE LET one == [ls EXCEPT !.rows = FillColumn(ls.rows, "ismatched", Flag("Not Checked"))]
         IN  IF ~ls.has_POP THEN one
             ELSE [one EXCEPT !.rows = FillColumn(one.rows, "POP", Flag("No PoP Provided"))]

\* len(frame[frame[col] == value])
CountEq(rows, col, value) == Cardinality({i \in 1..Len(rows) : rows[i][col] = value})

\* len(frame[frame[col] != value])
CountNe(rows, col, value) == Cardinality({i \in 1..Len(rows) : rows[i][col] # value})

\* get_lender_stats(lender_statement): (results, credit_debit), or the
\* KeyError of the first column it reads that the frame lacks
get_lender_stats(ls) ==
    IF ~ls.has_ismatched
    THEN [err |-> Raise("KeyError", "ismatched"), results |-> None, credit_debit |-> None]
    ELSE IF ~ls.has_POP
    THEN [err |-> Raise("KeyError", "POP"), results |-> None, credit_debit |-> None]
    ELSE [err |-> NoError,
          results |->
              [records |-> Len(ls.rows),
               matched |-> CountEq(ls.rows, "ismatched", Flag("checked")),
               unmatched |-> CountEq(ls.rows, "ismatched", Flag("Not Checked")),
               PoP |-> CountNe(ls.rows, "POP", Flag("No PoP Provided")),
               no_PoP |-> CountEq(ls.rows, "POP", Flag("No PoP Provided"))],
          credit_debit |->
              [credit_amount |->
                   format_currency(SumCol(SelectSeq(ls.rows, LAMBDA r : r.credit # NaN), "credit")),
               debit_amount |->
                   format_currency(SumCol(SelectSeq(ls.rows, LAMBDA r : r.debit # NaN), "debit"))]]

(* lender inputs *)
Ramani_1 == Str(<<"R", "a", "m", "a", "n", "i", "-", "1">>)
LenderDateCells ==
    {DateCell("iso", 5, 3, 2024), DateCell("dmy", 5, 3, 2024), DateCell("dmy", 25, 3, 2024),
     DateCell("text", 0, 0, 0), DateCell("nan", 0, 0, 0)}
LenderCreditCells ==
    {Int64(100), Str(<<"2", "5", "0">>), Str(<<"p", "a", "i", "n">>),
     Str(<<"1", ",", "0", "0", "0">>), NaN}
LenderDebitCells == {Int64(0), Int64(40), Str(<<"-">>), NaN}
LenderDescriptionCells == {RAMANI_1, Ramani_1, RAMAN, NaN}
IsmatchedCells == {Flag("checked"), Flag("Not Checked"), NaN}
POPCells == {Flag("receipt.pdf"), NaN}

LenderRows ==
    LET c0 == DateCell("iso", 5, 3, 2024)
    IN  {LenderRow(0, c, Int64(100), Int64(0), RAMANI_1, NaN, NaN) : c \in LenderDateCells}
        \cup {LenderRow(0, c0, cr, Int64(0), RAMANI_1, NaN, NaN) : cr \in LenderCreditCells}
        \cup {LenderRow(0, c0, Int64(100), deb, RAMANI_1, NaN, NaN) : deb \in LenderDebitCells}
        \cup {LenderRow(0, c0, Int64(100), Int64(0), des, NaN, NaN) : des \in LenderDescriptionCells}
        \cup {LenderRow(0, c0, Int64(100), Int64(0), RAMANI_1, im, pop) :
                  im \in IsmatchedCells, pop \in POPCells}

\* a frame read from a file that has or lacks each optional column
ReadLender(hi, hp, rows) ==
    LenderFrame(hi, hp,
        [i \in 1..Len(rows) |->
            [rows[i] EXCEPT !.idx = i,
                            !.ismatched = IF hi THEN @ ELSE Absent,
                            !.POP = IF hp THEN @ ELSE Absent]])

LenderFrames ==
    {ReadLender(hi, hp, t) : hi \in BOOLEAN, hp \in BOOLEAN, t \in SeqsUpTo(LenderRows, MaxLenderRows)}

(* ------------------- lender side: main, lines 87-98 -------------------- *)
InitLender ==
    /\ lender_in \in LenderFrames
    /\ lending_statement = lender_in /\ l_pc = "loaded" /\ l_err = NoError
    /\ lender_stats = None /\ credit_debit = None
    /\ CsvIdle /\ BankIdle /\ MatchIdle

\* line 87: lending_statement = normalize_lender_data(lending_statement)
NormalizeLender ==
    /\ l_pc = "loaded"
    /\ LET r == normalize_lender_data(lending_statement)
       IN  IF r.err # NoError
           THEN /\ l_pc' = "raised" /\ l_err' = r.err /\ UNCHANGED lending_statement
           ELSE /\ l_pc' = "normalized" /\ lending_statement' = r.df /\ UNCHANGED l_err
    /\ UNCHANGED <<lender_in, lender_stats, credit_debit>>
    /\ UNCHANGED <<csv_vars, bank_vars, match_vars>>

\* lines 89-94: the defaulting step
DefaultFill ==
    /\ l_pc = "normalized"
    /\ lending_statement' = default_fill(lending_statement)
    /\ l_pc' = "defaulted"
    /\ UNCHANGED <<lender_in, l_err, lender_stats, credit_debit>>
    /\ UNCHANGED <<csv_vars, bank_vars, match_vars>>

\* line 98: lender_stats, credit_debit = get_lender_stats(lending_statement)
GetLenderStats ==
    /\ l_pc = "defaulted"
    /\ LET r == get_lender_stats(lending_statement)
       IN  IF r.err # NoError
           THEN /\ l_pc' = "raised" /\ l_err' = r.err
                /\ UNCHANGED <<lender_stats, credit_debit>>
           ELSE /\ l_pc' = "stats" /\ lender_stats' = r.results
                /\ credit_debit' = r.credit_debit /\ UNCHANGED l_err
    /\ UNCHANGED <<lender_in, lending_statement>>
    /\ UNCHANGED <<csv_vars, bank_vars, match_vars>>

NextLender == NormalizeLender \/ DefaultFill \/ GetLenderStats

SpecLender == InitLender /\ [][NextLender]_vars

(* ---------------------------- lender claims --------------------------- *)
\* C4: without an ismatched column the run does not fail: after the defaulting
\* step every row's match-status reads 'Not Checked', and get_lender_stats
\* returns unmatched equal to the record count.
C4_NoIsmatchedColumn ==
    ~lender_in.has_ismatched =>
        /\ ~(l_pc = "raised" /\ l_err = Raise("KeyError", "ismatched"))
        /\ l_pc \in {"defaulted", "stats"} =>
              \A i \in 1..Len(lending_statement.rows) :
                  lending_statement.rows[i].ismatched = Flag("Not Checked")
        /\ l_pc = "stats" => lender_stats.unmatched = lender_stats.records

\* C5: after the defaulting step no row has a null ismatched or a null POP
\* value, whichever of the two columns the frame has.
C5_NoNullAfterDefaulting ==
    l_pc \in {"defaulted", "stats"} =>
        \A i \in 1..Len(lending_statement.rows) :
            /\ lending_statement.rows[i].ismatched # NaN
            /\ lending_statement.rows[i].POP # NaN

\* a credit or debit cell pd.to_numeric cannot read
Unparsable(c) == c.k = "str" /\ ~to_float(c.s).ok

\* the amount a cell contributes to a total: nothing when it is no number
Contribution(c) ==
    IF c.k \in {"int", "float"} THEN c.v
    ELSE IF c.k = "str" /\ to_float(c.s).ok /\ to_float(c.s).val # NaN THEN to_float(c.s).val.v
    ELSE 0

RECURSIVE TotalOf(_, _)
TotalOf(rows, col) ==
    IF Len(rows) = 0 THEN 0 ELSE Contribution(rows[1][col]) + TotalOf(Tail(rows), col)

\* C10: lender normalization does not raise on an unparsable credit or debit
\* and drops no row: the value becomes NaN, the output has the rows of the
\* input, and the totals of get_lender_stats are the sums over the rows whose
\* amount is a number.
C10_CoerceKeepsRows ==
    /\ (l_pc = "raised" /\ l_err.exc # "KeyError") =>
          \E i \in 1..Len(lender_in.rows) :
              \/ lender_date(lender_in.rows[i].created_at).exc # "none"
              \/ lender_in.rows[i].description.k # "str"
    /\ l_pc \in {"normalized", "defaulted", "stats"} =>
          /\ Len(lending_statement.rows) = Len(lender_in.rows)
          /\ \A i \in 1..Len(lender_in.rows) :
                /\ lending_statement.rows[i].idx = lender_in.rows[i].idx
                /\ Unparsable(lender_in.rows[i].credit) => lending_statement.rows[i].credit = NaN
                /\ Unparsable(lender_in.rows[i].debit) => lending_statement.rows[i].debit = NaN
    /\ l_pc = "stats" =>
          /\ credit_debit.credit_amount = format_currency(TotalOf(lender_in.rows, "credit"))
          /\ credit_debit.debit_amount = format_currency(TotalOf(lender_in.rows, "debit"))

\* statistics of a frame with an unparsable credit, an unparsable debit and a
\* credit that counts
C10_Witness ==
    /\ l_pc = "stats"
    /\ \E i \in 1..Len(lender_in.rows) : Unparsable(lender_in.rows[i].credit)
    /\ \E i \in 1..Len(lender_in.rows) : Contribution(lender_in.rows[i].credit) > 0
    /\ Len(lending_statement.rows) = Len(lender_in.rows)

(* ------------------- the matcher: main, line 129 ---------------------- *)
\* Series.isin(values) on one key
isin(key, keys) == \E k \in 1..Len(keys) : keys[k] = key

\* check_missing_from_lender with the mask not negated: the rows whose key the
\* lender has
check_missing_from_lender_present(bs, ls) ==
    SelectSeq(bs, LAMBDA r :
        isin(r.normalized_description,
             [k \in 1..Len(ls.rows) |-> ls.rows[k].normalized_description]))

\* check_missing_from_lender(bank_statement, lender_statement): one frame, the
\* bank rows whose key is in no lender row
check_missing_from_lender(bs, ls) ==
    LET bank_descriptions == [i \in 1..Len(bs) |-> bs[i].normalized_description]
        lender_descriptions == [k \in 1..Len(ls.rows) |-> ls.rows[k].normalized_description]
    IN  SelectSeq(bs, LAMBDA r : ~isin(r.normalized_description, lender_descriptions))

\* the column labels of a normalized bank frame: what iterating it yields
BankColumns ==
    <<"Posting Date", "Value Date", "Debit", "Credit", "Details", "normalized_description">>

ra_mani_2 == Str(<<"R", "A", "-", "M", "A", "N", "I">>)

MatchBankRows ==
    LET p0 == DateCell("dmyT", 5, 3, 2024)
    IN  {BankRow(0, p0, p0, deb, Int64(0), det) :
             deb \in {Int64(250), Int64(1000)}, det \in {RAMANI_1, ra_mani, ra_mani_2}}
        \cup {BankRow(0, p0, p0, Int64(250), Int64(50), RAMANI_1)}

MatchLenderRows ==
    {LenderRow(0, DateCell("iso", 5, 3, 2024), Int64(250), Int64(0), des, NaN, NaN) :
         des \in {Ramani_1, ra_mani, RAMAN}}

MatchBankFrames ==
    {normalize_bank_data(RangeIndexed(t, 1)).df : t \in SeqsUpTo(MatchBankRows, MaxMatchRows)}

MatchLenderFrames ==
    {default_fill(normalize_lender_data(ReadLender(TRUE, TRUE, t)).df) :
         t \in SeqsUpTo(MatchLenderRows, MaxMatchRows)}

InitMatch ==
    /\ bank_statement \in MatchBankFrames
    /\ bank_in = <<>> /\ bank_once = None /\ b_pc = "idle"
    /\ b_err = NoError /\ bank_stats = None /\ bank_credit_debit = None
    /\ lender_in \in MatchLenderFrames
    /\ lending_statement = lender_in /\ l_pc = "idle"
    /\ l_err = NoError /\ lender_stats = None /\ credit_debit = None
    /\ m_pc = "ready" /\ ret = <<>> /\ missing_from_lender = None
    /\ matching_records = None /\ m_err = NoError
    /\ CsvIdle

\* line 129, right-hand side: the call returns its frame
CallCheckMissing ==
    /\ m_pc = "ready"
    /\ ret' = check_missing_from_lender(bank_statement, lending_statement)
    /\ m_pc' = "called"
    /\ UNCHANGED <<missing_from_lender, matching_records, m_err>>
    /\ UNCHANGED <<csv_vars, bank_vars, lender_vars>>

\* line 129, left-hand side: the returned frame is unpacked into two names;
\* iterating a frame yields its column labels, and any number of them but two
\* is a ValueError
UnpackResult ==
    /\ m_pc = "called"
    /\ IF Len(BankColumns) = 2
       THEN /\ missing_from_lender' = BankColumns[1] /\ matching_records' = BankColumns[2]
            /\ m_pc' = "unpacked" /\ UNCHANGED m_err
       ELSE /\ m_pc' = "raised" /\ m_err' = Raise("ValueError", "unpack")
            /\ UNCHANGED <<missing_from_lender, matching_records>>
    /\ UNCHANGED ret
    /\ UNCHANGED <<csv_vars, bank_vars, lender_vars>>

NextMatch == CallCheckMissing \/ UnpackResult

SpecMatch == InitMatch /\ [][NextMatch]_vars

(* ---------------------------- matcher claims -------------------------- *)
\* C2: the matcher as main calls it yields missing_from_lender and
\* matching_records, disjoint, whose union is the bank frame.
C2_TwoWayPartition ==
    m_pc \in {"unpacked", "raised"} =>
        /\ m_pc = "unpacked"
        /\ Labels(missing_from_lender) \cap Labels(matching_records) = {}
        /\ Labels(missing_from_lender) \cup Labels(matching_records) = Labels(bank_statement)
        /\ Len(missing_from_lender) + Len(matching_records) = Len(bank_statement)

LenderHasKey(key) ==
    \E k \in 1..Len(lending_statement.rows) : lending_statement.rows[k].normalized_description = key

\* C3: a bank row is missing exactly when no lender row has its key (it is
\* matching otherwise); rows are returned as they are, rows of one key are
\* classified alike, and the lender frame is left as it was.
C3_KeyPresenceOnly ==
    m_pc \in {"called", "unpacked", "raised"} =>
        /\ \A i \in 1..Len(bank_statement) :
              (bank_statement[i].idx \in Labels(ret))
                  <=> ~LenderHasKey(bank_statement[i].normalized_description)
        /\ \A j \in 1..Len(ret) : \E i \in 1..Len(bank_statement) : ret[j] = bank_statement[i]
        /\ \A j, k \in 1..Len(ret) : ret[j].idx = ret[k].idx => j = k
        /\ lending_statement = lender_in

\* two bank rows of one key and different amounts, both matching through the
\* single lender row of that key
C3_Witness ==
    /\ m_pc = "called"
    /\ \E i, j \in 1..Len(bank_statement) :
          /\ i # j
          /\ bank_statement[i].normalized_description = bank_statement[j].normalized_description
          /\ bank_statement[i].Debit # bank_statement[j].Debit
          /\ bank_statement[i].idx \notin Labels(ret)
          /\ bank_statement[j].idx \notin Labels(ret)
          /\ Cardinality({k \in 1..Len(lending_statement.rows) :
                 lending_statement.rows[k].normalized_description
                     = bank_statement[i].normalized_description}) = 1

====
